---- MODULE Spec2Model ----
(***************************************************************************)
(* pdf_collate: the watcher of src/entry.py as a state machine.            *)
(*                                                                         *)
(* The process loads the pickled latest record, reconciles the watched     *)
(* directory against it (process_offline_files), and then polls or waits   *)
(* for inotify events.  Each candidate goes through process_one_file:      *)
(* readiness loop, Pdf(), ocr, output placement, pairing with the previous *)
(* record, save_latest.  The environment creates, writes and removes files *)
(* and may kill and restart the process at any point.                      *)
(*                                                                         *)
(* Times are whole seconds.  A record chain (a Pdf and what its .prev      *)
(* reaches) is a sequence, most recent record first; <<>> is None.         *)
(***************************************************************************)
EXTENDS Integers, Sequences, FiniteSets, TLC

\* ------------------------------------------------------------ bounds
MaxFiles == 2
\* Files created over a run, files that may be empty at the same time, and
\* faults over a run: kills of the process, failures of ocrmypdf or qpdf on a good
\* input, and writes to or removals of files already there.
MaxEmpty == 1
MaxFaults == 1
\* Largest gap, in seconds, between the two records of the pairing runs.
MaxGap == 70

\* Most whole days between the two records of the pairing runs over days.
MaxDays == 1

\* Modification times the environment may give a file (seconds): 59 s and
\* 61 s steps, on either side of the pairing threshold.
Mtimes == {0, 59, 120}

\* ------------------------------------------------- program constants
Retries == 10
MaxSuffix == 10
Threshold == 60
SecondsPerDay == 86400

\* File names; the longer runs of SpecMore create one file more than MaxFiles.
Names == 1..(MaxFiles + 1)
NoFile == [ex |-> FALSE, mtime |-> 0, size |-> 0]
NoOut == <<>>
None == <<>>

VARIABLES
    dir,        \* watched directory: name -> [ex, mtime, size]
    arrived,    \* how many names have been created so far
    outDirs,    \* directories under OUT_DIR: set of <<label, suffix>>
    pickle,     \* PICKLE_FILE: None, a record chain, or "corrupt" inside a sequence
    pc,         \* where the process is
    latest,     \* latest_pdf / ret / prev_pdf: record chain
    queue,      \* rest of `files` of the running pass: sequence of names
    cur,        \* the candidate in process_one_file
    startup,    \* TRUE while main's own process_offline_files call runs
    restarts,   \* terminations so far
    failures,   \* external tool failures so far
    meddles,    \* writes to and removals of existing files so far
    placed,     \* history: names whose output directory has been placed
    last,       \* history: the name whose output was placed most recently
    merged,     \* history: <<front, back>> source pairs handed to qpdf in this run
    listed,     \* history: what the running pass listed and which record it got
    failed,     \* history: names ocrmypdf has failed for, on a good input, in this run
    reached     \* history: arrival time of the last record of this run to reach pairing

vars == <<dir, arrived, outDirs, pickle, pc, latest, queue, cur, startup,
          restarts, failures, meddles, placed, last, merged, listed, failed, reached>>

\* ------------------------------------------------------------ helpers

\* A Pdf object: entry.py Pdf.__init__ keeps name, mtime and out.
Rec(name, mtime, out) == [name |-> name, mtime |-> mtime, out |-> out]

\* What a truncated or half-written PICKLE_FILE is: pickle.load raises on it.
Corrupt == <<Rec(-1, 0, NoOut)>>

NoCur == [name |-> 0, i |-> 0, mtime |-> 0, out |-> NoOut, ready |-> FALSE, tried |-> FALSE,
          pred |-> 0]
NoListing == [files |-> <<>>, prior |-> None, handed |-> <<>>]
\* No record of this run has reached the pairing step yet.
NoTime == -1

Present == {n \in Names : dir[n].ex}

\* Pdf.timestamp: mtime.strftime("%Y-%m-%dT%H_%M_%S") of a whole-second time:
\* day number and second of the day.
Timestamp(mtime) == <<mtime \div SecondsPerDay, mtime % SecondsPerDay>>

\* timedelta.seconds of (a - b): the seconds field of the normalised
\* difference, 0 <= seconds < 86400, days kept apart.
DeltaSeconds(a, b) == (a - b) % SecondsPerDay

\* os.listdir returns the entries in any order.
Listings(S) ==
    {s \in [1..Cardinality(S) -> S] : \A i, j \in 1..Cardinality(S) : i # j => s[i] # s[j]}

\* A list built without sorting: entries stay in listing order.
InsertAtEnd(sorted, e) == sorted \o <<e>>

\* sorted(files, key=lambda f: f[0]): stable, by modification time only.
InsertByTime(sorted, e) ==
    LET k == Cardinality({j \in 1..Len(sorted) : sorted[j][1] <= e[1]})
    IN  SubSeq(sorted, 1, k) \o <<e>> \o SubSeq(sorted, k + 1, Len(sorted))

RECURSIVE SortFiles(_)
SortFiles(s) ==
    IF s = <<>> THEN <<>>
    ELSE InsertByTime(SortFiles(SubSeq(s, 1, Len(s) - 1)), s[Len(s)])

\* bisect_right(keys, x) on a sorted list: the index after the last key <= x.
BisectRight(keys, x) == Cardinality({j \in 1..Len(keys) : keys[j] <= x})

\* The (mtime, filename) list process_offline_files builds from one listing.
FilesOf(listing) == SortFiles([j \in 1..Len(listing) |-> <<dir[listing[j]].mtime, listing[j]>>])

\* Lines 183-189: the suffix of `files` kept when a prior record exists
\* (files is not empty and its last time is later than the prior record's).
SkipIndex(files, prior) ==
    LET keys == [j \in 1..Len(files) |-> files[j][1]]
        i0 == IF Len(keys) >= 2 THEN BisectRight(keys, prior.mtime) ELSE 0
    IN  IF files[i0 + 1][2] = prior.name THEN i0 + 1 ELSE i0

Suffix(files, prior) ==
    SubSeq(files, SkipIndex(files, prior) + 1, Len(files))

\* Pdf.get_new_out_dir_name: the plain label, else the first free _01.._10;
\* NoOut when all are taken (NonFatalError).
GetNewOutDirNameUnchecked(label) ==
    IF <<label, 0>> \notin outDirs THEN <<label, 0>>
    ELSE IF \E k \in 1..MaxSuffix : <<label, k>> \notin outDirs
         THEN <<label, CHOOSE k \in 1..MaxSuffix :
                          /\ <<label, k>> \notin outDirs
                          /\ \A m \in 1..(k - 1) : <<label, m>> \in outDirs>>
         ELSE <<label, 0>>

GetNewOutDirName(label) ==
    IF <<label, 0>> \notin outDirs THEN <<label, 0>>
    ELSE IF \E k \in 1..MaxSuffix : <<label, k>> \notin outDirs
         THEN <<label, CHOOSE k \in 1..MaxSuffix :
                          /\ <<label, k>> \notin outDirs
                          /\ \A m \in 1..(k - 1) : <<label, m>> \in outDirs>>
         ELSE NoOut

\* The comparison with >= in place of >.
WantsCollateBelow(mtime, prev) ==
    /\ prev # None
    /\ ~(DeltaSeconds(mtime, prev[1].mtime) >= Threshold)

\* Pdf.process lines 120-125: is collate() called for this record?
WantsCollate(mtime, prev) ==
    /\ prev # None
    /\ ~(DeltaSeconds(mtime, prev[1].mtime) > Threshold)

\* ------------------------------------------------------------ initial state
Init ==
    /\ dir = [n \in Names |-> NoFile]
    /\ arrived = 0
    /\ outDirs = {}
    /\ pickle = None
    /\ pc = "start"
    /\ latest = None
    /\ queue = <<>>
    /\ cur = NoCur
    /\ startup = TRUE
    /\ restarts = 0
    /\ failures = 0
    /\ meddles = 0
    /\ placed = {}
    /\ last = 0
    /\ merged = {}
    /\ listed = NoListing
    /\ failed = {}
    /\ reached = NoTime

\* ------------------------------------------------------------ environment

Empty == {n \in Present : dir[n].size = 0}
FaultsLeft == restarts + failures + meddles < MaxFaults

\* The process looks at MON_DIR as a whole only when a pass lists it, and during
\* a pass only at the one candidate process_one_file is working on.  A change
\* to any other file made during a pass is seen exactly as if made later: when
\* that file has become the candidate, or when the pass has returned.  So the
\* environment changes, during a pass, the candidate only, and any file at the
\* points where no pass is running.
Quiescent == pc \in {"start", "sleep"}
Touchable == IF Quiescent THEN Present ELSE Present \cap {cur.name}

\* A new file is created in MON_DIR, empty or not, with any modification time.
\* Names are used once and in order (the files are interchangeable).
Create ==
    /\ \E t \in Mtimes, sz \in 0..1 :
          /\ sz = 0 => Cardinality(Empty) < MaxEmpty
          /\ dir' = [dir EXCEPT ![arrived + 1] = [ex |-> TRUE, mtime |-> t, size |-> sz]]
    /\ arrived' = arrived + 1

Appear ==
    /\ Quiescent
    /\ arrived < MaxFiles
    /\ Create
    /\ UNCHANGED <<outDirs, pickle, pc, latest, queue, cur, startup,
                   restarts, failures, meddles, placed, last, merged, listed,
                   failed, reached>>

\* The writer of a file writes (more of) it: the file is not empty afterwards and
\* its modification time does not go back.
Write ==
    /\ FaultsLeft
    /\ \E n \in Touchable, t \in Mtimes :
          /\ t >= dir[n].mtime
          /\ t > dir[n].mtime \/ dir[n].size = 0
          /\ dir' = [dir EXCEPT ![n] = [ex |-> TRUE, mtime |-> t, size |-> 1]]
    /\ meddles' = meddles + 1
    /\ UNCHANGED <<arrived, outDirs, pickle, pc, latest, queue, cur, startup,
                   restarts, failures, placed, last, merged, listed,
                   failed, reached>>

\* A file is removed or renamed away.
Vanish ==
    /\ FaultsLeft
    /\ \E n \in Touchable : dir' = [dir EXCEPT ![n] = NoFile]
    /\ meddles' = meddles + 1
    /\ UNCHANGED <<arrived, outDirs, pickle, pc, latest, queue, cur, startup,
                   restarts, failures, placed, last, merged, listed,
                   failed, reached>>

\* One more file than MaxFiles, created before the process first starts.
AppearMore ==
    /\ pc = "start"
    /\ restarts = 0
    /\ arrived = MaxFiles
    /\ Create
    /\ UNCHANGED <<outDirs, pickle, pc, latest, queue, cur, startup,
                   restarts, failures, meddles, placed, last, merged, listed,
                   failed, reached>>

\* The process is killed.  Its memory is lost; a kill during save_latest's dump
\* may leave PICKLE_FILE truncated.
Crash ==
    /\ pc \notin {"down", "dead"}
    /\ FaultsLeft
    /\ pc' = "down"
    /\ pickle' \in (IF pc = "save" THEN {pickle, Corrupt} ELSE {pickle})
    /\ latest' = None
    /\ queue' = <<>>
    /\ cur' = NoCur
    /\ merged' = {}
    /\ listed' = NoListing
    /\ failed' = {}
    /\ reached' = NoTime
    /\ UNCHANGED <<dir, arrived, outDirs, startup, restarts, failures, meddles, placed, last>>

\* The process is started again (by hand or by a supervisor).
Restart ==
    /\ pc \in {"down", "dead"}
    /\ FaultsLeft
    /\ restarts' = restarts + 1
    /\ pc' = "start"
    /\ startup' = TRUE
    /\ latest' = None
    /\ queue' = <<>>
    /\ cur' = NoCur
    /\ merged' = {}
    /\ listed' = NoListing
    /\ failed' = {}
    /\ reached' = NoTime
    /\ UNCHANGED <<dir, arrived, outDirs, pickle, failures, meddles, placed, last>>

\* ------------------------------------------------------------ main

\* main lines 236-239: load_latest, then the startup reconciliation pass.
LoadLatest ==
    /\ pc = "start"
    /\ IF pickle = Corrupt
       THEN pc' = "dead" /\ latest' = None
       ELSE pc' = "scan" /\ latest' = pickle
    /\ UNCHANGED <<dir, arrived, outDirs, pickle, queue, cur, startup,
                   restarts, failures, meddles, placed, last, merged, listed,
                   failed, reached>>

\* process_offline_files lines 166-189: list, sort, drop what the prior record
\* covers.  files[-1] of an empty list raises IndexError, which nothing catches.
Scan ==
    /\ pc = "scan"
    /\ \E listing \in Listings(Present) :
          LET files == FilesOf(listing) IN
          IF latest # None /\ files = <<>>
          THEN /\ pc' = "dead"
               /\ queue' = <<>>
               /\ listed' = NoListing
          ELSE IF latest # None /\ latest[1].mtime >= files[Len(files)][1]
          THEN /\ pc' = "next"
               /\ queue' = <<>>
               /\ listed' = [files |-> files, prior |-> latest, handed |-> <<>>]
          ELSE LET kept == IF latest # None THEN Suffix(files, latest[1]) ELSE files IN
               /\ pc' = "next"
               /\ queue' = [j \in 1..Len(kept) |-> kept[j][2]]
               /\ listed' = [files |-> files, prior |-> latest, handed |-> <<>>]
    /\ UNCHANGED <<dir, arrived, outDirs, pickle, latest, cur, startup,
                   restarts, failures, meddles, placed, last, merged,
                   failed, reached>>

\* Lines 171-174: an entry listed by os.listdir is gone when os.path.getmtime
\* reads it: FileNotFoundError leaves process_offline_files.  main does not catch
\* it; poll_loop's handler names the undefined `event` and dies of NameError.
ScanRace ==
    /\ pc = "scan"
    /\ FaultsLeft
    /\ \E n \in Present : dir' = [dir EXCEPT ![n] = NoFile]
    /\ meddles' = meddles + 1
    /\ pc' = "dead"
    /\ UNCHANGED <<arrived, outDirs, pickle, latest, queue, cur, startup,
                   restarts, failures, placed, last, merged, listed,
                   failed, reached>>

\* Lines 191-194: the next entry of `files` goes to process_one_file.
HandOff ==
    /\ pc = "next"
    /\ queue # <<>>
    /\ cur' = [NoCur EXCEPT !.name = Head(queue)]
    /\ queue' = Tail(queue)
    /\ listed' = [listed EXCEPT !.handed = Append(@, Head(queue))]
    /\ pc' = "ready"
    /\ UNCHANGED <<dir, arrived, outDirs, pickle, latest, startup,
                   restarts, failures, meddles, placed, last, merged,
                   failed, reached>>

\* Line 198: the pass returns ret.  After main's own pass (lines 241-244) the
\* command line decides between poll_loop and inotify_loop; in poll_loop the
\* next sleep follows.
PassReturn ==
    /\ pc = "next"
    /\ queue = <<>>
    /\ pc' \in (IF startup THEN {"wait", "sleep"} ELSE {"sleep"})
    /\ startup' = FALSE
    /\ listed' = NoListing
    /\ UNCHANGED <<dir, arrived, outDirs, pickle, latest, queue, cur,
                   restarts, failures, meddles, placed, last, merged,
                   failed, reached>>

\* poll_loop lines 216-219: the sleep ends, the next pass starts.
PollTick ==
    /\ pc = "sleep"
    /\ pc' = "scan"
    /\ UNCHANGED <<dir, arrived, outDirs, pickle, latest, queue, cur, startup,
                   restarts, failures, meddles, placed, last, merged, listed,
                   failed, reached>>

\* inotify_loop lines 206-209: a file is created and its event is read.  The
\* call's argument prev_pdf is a local that was never assigned:
\* UnboundLocalError, which the handler does not catch.
InotifyEvent ==
    /\ pc = "wait"
    /\ arrived < MaxFiles
    /\ Create
    /\ pc' = "dead"
    /\ UNCHANGED <<outDirs, pickle, latest, queue, cur, startup,
                   restarts, failures, meddles, placed, last, merged, listed,
                   failed, reached>>

\* ------------------------------------------------------------ process_one_file

\* Pdf.__init__ lines 32-38 for the candidate: its modification time is read now.
NewPdf == [cur EXCEPT !.mtime = dir[cur.name].mtime]

\* Lines 132-139, one turn of the readiness loop: a missing file raises
\* NonFatalError, a non-empty one leaves the loop (and line 141 builds the Pdf),
\* an empty one sleeps; after the last turn the loop just ends.
Ready ==
    /\ pc = "ready"
    /\ IF ~dir[cur.name].ex
       THEN pc' = "next" /\ cur' = NoCur
       ELSE IF dir[cur.name].size # 0
       THEN pc' = "ocr" /\ cur' = [NewPdf EXCEPT !.ready = TRUE]
       ELSE /\ cur' = [cur EXCEPT !.i = cur.i + 1]
            /\ pc' = IF cur.i + 1 < Retries THEN "ready" ELSE "mk"
    /\ UNCHANGED <<dir, arrived, outDirs, pickle, latest, queue, startup,
                   restarts, failures, meddles, placed, last, merged, listed,
                   failed, reached>>

\* Line 141 after a readiness loop that ran out: Pdf(name, prev) whatever the
\* size; os.path.getmtime raises FileNotFoundError when the file is gone.
MakePdf ==
    /\ pc = "mk"
    /\ IF ~dir[cur.name].ex
       THEN pc' = "next" /\ cur' = NoCur
       ELSE pc' = "ocr" /\ cur' = NewPdf
    /\ UNCHANGED <<dir, arrived, outDirs, pickle, latest, queue, startup,
                   restarts, failures, meddles, placed, last, merged, listed,
                   failed, reached>>

\* Can ocrmypdf succeed on the candidate?  Not on a missing or empty input.
InputGood == dir[cur.name].ex /\ dir[cur.name].size # 0

\* The engine fails and the pass forgets its latest record (ret = None).
OcrFailForgets ==
    /\ pc = "ocr"
    /\ ~InputGood \/ FaultsLeft
    /\ failures' = IF InputGood THEN failures + 1 ELSE failures
    /\ failed' = IF InputGood THEN failed \cup {cur.name} ELSE failed
    /\ pc' = "next"
    /\ cur' = NoCur
    /\ latest' = None
    /\ UNCHANGED <<dir, arrived, outDirs, pickle, queue, startup,
                   restarts, meddles, placed, last, merged, listed, reached>>

\* Pdf.process lines 111-118, the engine fails for a language (or the input is
\* bad): the scratch directory is removed and NonFatalError reaches the caller.
OcrFail ==
    /\ pc = "ocr"
    /\ ~InputGood \/ FaultsLeft
    /\ failures' = IF InputGood THEN failures + 1 ELSE failures
    /\ failed' = IF InputGood THEN failed \cup {cur.name} ELSE failed
    /\ pc' = "next"
    /\ cur' = NoCur
    /\ UNCHANGED <<dir, arrived, outDirs, pickle, latest, queue, startup,
                   restarts, meddles, placed, last, merged, listed, reached>>

\* Pdf.process lines 111-118, the engine succeeds: get_new_out_dir_name picks
\* the directory and shutil.move places it, or all names are taken.
OcrAndPlace ==
    /\ pc = "ocr"
    /\ InputGood
    /\ LET out == GetNewOutDirName(Timestamp(cur.mtime)) IN
       IF out = NoOut
       THEN /\ pc' = "next"
            /\ cur' = NoCur
            /\ UNCHANGED <<outDirs, placed, last, reached>>
       ELSE /\ outDirs' = outDirs \cup {out}
            /\ cur' = [cur EXCEPT !.out = out, !.pred = last]
            /\ placed' = placed \cup {cur.name}
            /\ last' = cur.name
            /\ reached' = cur.mtime
            /\ pc' = "pair"
    /\ UNCHANGED <<dir, arrived, pickle, latest, queue, startup,
                   restarts, failures, meddles, merged, listed, failed>>

\* Pdf.process lines 120-124: no previous record, or too far apart.
StandAlone ==
    /\ pc = "pair"
    /\ ~WantsCollate(cur.mtime, latest)
    /\ pc' = "save"
    /\ UNCHANGED <<dir, arrived, outDirs, pickle, latest, queue, cur, startup,
                   restarts, failures, meddles, placed, last, merged, listed,
                   failed, reached>>

\* Pdf.process line 125: collate() is entered and qpdf is started on the
\* previous record's output (front) and this record's output (back).
StartCollate ==
    /\ pc = "pair"
    /\ WantsCollate(cur.mtime, latest)
    /\ cur' = [cur EXCEPT !.tried = TRUE]
    /\ pc' = "collate"
    /\ UNCHANGED <<dir, arrived, outDirs, pickle, latest, queue, startup,
                   restarts, failures, meddles, placed, last, merged, listed,
                   failed, reached>>

\* Pdf.collate lines 93-107 with qpdf succeeding for both languages.
Collate ==
    /\ pc = "collate"
    /\ merged' = merged \cup {<<latest[1].name, cur.name>>}
    /\ pc' = "save"
    /\ UNCHANGED <<dir, arrived, outDirs, pickle, latest, queue, cur, startup,
                   restarts, failures, meddles, placed, last, listed,
                   failed, reached>>

\* Pdf.collate with qpdf failing: NonFatalError leaves process() and
\* process_one_file; lines 143-145 are not reached.
CollateFail ==
    /\ pc = "collate"
    /\ FaultsLeft
    /\ failures' = failures + 1
    /\ merged' = merged \cup {<<latest[1].name, cur.name>>}
    /\ cur' = NoCur
    /\ pc' = "next"
    /\ UNCHANGED <<dir, arrived, outDirs, pickle, latest, queue, startup,
                   restarts, meddles, placed, last, listed,
                   failed, reached>>

\* The chain without line 144: the predecessor keeps its own back-reference.
ChainWhole(pdf, prev) ==
    <<Rec(pdf.name, pdf.mtime, pdf.out)>> \o prev

\* The chain a finished record carries: itself and its predecessor, whose own
\* back-reference line 144 has cleared.
Chain(pdf, prev) ==
    <<Rec(pdf.name, pdf.mtime, pdf.out)>> \o (IF prev = None THEN <<>> ELSE <<prev[1]>>)

\* save_latest called before Pdf.process instead of after it.
SaveEarly ==
    /\ pc = "ocr"
    /\ pickle # Chain(cur, latest)
    /\ pickle' = Chain(cur, latest)
    /\ UNCHANGED <<dir, arrived, outDirs, pc, latest, queue, cur, startup,
                   restarts, failures, meddles, placed, last, merged, listed,
                   failed, reached>>

\* process_one_file lines 143-147 and save_latest: prev.prev = None, the record
\* is pickled and becomes ret.
Save ==
    /\ pc = "save"
    /\ pickle' = Chain(cur, latest)
    /\ latest' = Chain(cur, latest)
    /\ cur' = NoCur
    /\ pc' = "next"
    /\ UNCHANGED <<dir, arrived, outDirs, queue, startup,
                   restarts, failures, meddles, placed, last, merged, listed,
                   failed, reached>>

\* ------------------------------------------------------------ specification
Next ==
    \/ Appear
    \/ Write
    \/ Vanish
    \/ Crash
    \/ Restart
    \/ LoadLatest
    \/ Scan
    \/ ScanRace
    \/ HandOff
    \/ PassReturn
    \/ PollTick
    \/ InotifyEvent
    \/ Ready
    \/ MakePdf
    \/ OcrFail
    \/ OcrAndPlace
    \/ StandAlone
    \/ StartCollate
    \/ Collate
    \/ CollateFail
    \/ Save

Spec == Init /\ [][Next]_vars

\* The same program with one more file in the directory at its first start.
NextMore == Next \/ AppearMore
SpecMore == Init /\ [][NextMore]_vars

\* ------------------------------------------------------------ pairing alone
\* The pairing step from every state "record 1 was saved at time a, candidate 2
\* of time a + d has just been placed", the gap d running over 1..MaxGap.
InitPair ==
    \E a \in Mtimes, d \in 1..MaxGap, there \in BOOLEAN :
        LET out1 == <<Timestamp(a), 0>>
            out2 == <<Timestamp(a + d), 0>>
            f1 == IF there THEN [ex |-> TRUE, mtime |-> a, size |-> 1] ELSE NoFile
            f2 == [ex |-> TRUE, mtime |-> a + d, size |-> 1]
        IN  /\ dir = [n \in Names |-> IF n = 1 THEN f1 ELSE IF n = 2 THEN f2 ELSE NoFile]
            /\ arrived = 2
            /\ outDirs = {out1, out2}
            /\ pickle = <<Rec(1, a, out1)>>
            /\ latest = <<Rec(1, a, out1)>>
            /\ pc = "pair"
            /\ queue = <<>>
            /\ cur = [NoCur EXCEPT !.name = 2, !.mtime = a + d, !.out = out2,
                                   !.ready = TRUE, !.pred = 1]
            /\ startup = FALSE
            /\ restarts = 0
            /\ failures = 0
            /\ meddles = 0
            /\ placed = {1, 2}
            /\ last = 2
            /\ merged = {}
            /\ listed = [files |-> (IF there THEN <<<<a, 1>>>> ELSE <<>>) \o <<<<a + d, 2>>>>,
                         prior |-> <<Rec(1, a, out1)>>,
                         handed |-> <<2>>]
            /\ failed = {}
            /\ reached = a + d

NextPair ==
    \/ StandAlone
    \/ StartCollate
    \/ Collate
    \/ CollateFail
    \/ Save

SpecPair == InitPair /\ [][NextPair]_vars

\* The pairing step again, the two records whole days and 1..MaxGap seconds
\* apart: record 1 was saved at time a, candidate 2 of time a + d has just been
\* placed.
InitDays ==
    \E a \in Mtimes, k \in 0..MaxDays, e \in 1..MaxGap :
        LET d == k * SecondsPerDay + e
            out1 == <<Timestamp(a), 0>>
            out2 == <<Timestamp(a + d), 0>>
        IN  /\ dir = [n \in Names |-> IF n = 2 THEN [ex |-> TRUE, mtime |-> a + d, size |-> 1]
                                      ELSE NoFile]
            /\ arrived = 2
            /\ outDirs = {out1, out2}
            /\ pickle = <<Rec(1, a, out1)>>
            /\ latest = <<Rec(1, a, out1)>>
            /\ pc = "pair"
            /\ queue = <<>>
            /\ cur = [NoCur EXCEPT !.name = 2, !.mtime = a + d, !.out = out2,
                                   !.ready = TRUE, !.pred = 1]
            /\ startup = FALSE
            /\ restarts = 0
            /\ failures = 0
            /\ meddles = 0
            /\ placed = {1, 2}
            /\ last = 2
            /\ merged = {}
            /\ listed = [files |-> <<<<a + d, 2>>>>,
                         prior |-> <<Rec(1, a, out1)>>,
                         handed |-> <<2>>]
            /\ failed = {}
            /\ reached = a + d

SpecDays == InitDays /\ [][NextPair]_vars

\* ------------------------------------------------------------ name collisions
\* A startup pass over two files, the first just accepted, in an output root
\* where the first m names of the first file's label are taken already:
\* T, T_01, ... in the order get_new_out_dir_name hands them out.
InitCollide ==
    \E t1 \in Mtimes, t2 \in Mtimes, m \in 0..(MaxSuffix + 1) :
        /\ t1 <= t2
        /\ dir = [n \in Names |-> IF n = 1 THEN [ex |-> TRUE, mtime |-> t1, size |-> 1]
                                  ELSE IF n = 2 THEN [ex |-> TRUE, mtime |-> t2, size |-> 1]
                                  ELSE NoFile]
        /\ arrived = 2
        /\ outDirs = {<<Timestamp(t1), k>> : k \in 0..(m - 1)}
        /\ pickle = None
        /\ latest = None
        /\ pc = "ocr"
        /\ queue = <<2>>
        /\ cur = [NoCur EXCEPT !.name = 1, !.mtime = t1, !.ready = TRUE]
        /\ startup = TRUE
        /\ restarts = 0
        /\ failures = 0
        /\ meddles = 0
        /\ placed = {}
        /\ last = 0
        /\ merged = {}
        /\ listed = [files |-> <<<<t1, 1>>, <<t2, 2>>>>, prior |-> None, handed |-> <<1>>]
        /\ failed = {}
        /\ reached = NoTime

NextCollide ==
    \/ HandOff
    \/ Ready
    \/ OcrFail
    \/ OcrAndPlace
    \/ StandAlone
    \/ StartCollate
    \/ Collate
    \/ CollateFail
    \/ Save

SpecCollide == InitCollide /\ [][NextCollide]_vars

\* ------------------------------------------------------------ claims

\* What the running pass listed: the names, and the time it read for a name.
ListedNames == {listed.files[j][2] : j \in 1..Len(listed.files)}
ListedTime(n) == listed.files[CHOOSE j \in 1..Len(listed.files) : listed.files[j][2] = n][1]
HandedNames == {listed.handed[j] : j \in 1..Len(listed.handed)}
PassOver == pc = "next" /\ queue = <<>>

\* C1: no input file is reprocessed, whenever the process is killed and
\* restarted: a file whose output directory has been placed is never given to
\* the recognition engine again.
C1_NoReprocessing ==
    pc = "ocr" => cur.name \notin placed

\* C2: no file is lost across a restart: every file in the directory at startup
\* that was not processed before (here: whose output was never placed) is handed
\* to processing by the startup pass, whatever its modification time.
C2_NoFileLost ==
    (startup /\ PassOver) =>
        \A n \in ListedNames : n \notin placed => n \in HandedNames

\* C3: a pass that gets a prior record R hands over no entry whose time is at
\* most R's, does not hand over R's own source file, and hands over nothing
\* when R's time is at least the latest entry's.
C3_IdempotentResume ==
    listed.prior # None =>
        /\ \A n \in HandedNames : ListedTime(n) > listed.prior[1].mtime
        /\ listed.prior[1].name \notin HandedNames
        /\ (\A n \in ListedNames : listed.prior[1].mtime >= ListedTime(n))
              => listed.handed = <<>>

\* C4: with no prior record a pass hands over every listed entry exactly once,
\* in ascending order of the modification times it read, whatever order the
\* listing came in.
C4_CatchUpOrder ==
    listed.prior = None =>
        /\ HandedNames \subseteq ListedNames
        /\ \A i, j \in 1..Len(listed.handed) :
              i < j => /\ listed.handed[i] # listed.handed[j]
                       /\ ListedTime(listed.handed[i]) <= ListedTime(listed.handed[j])
        /\ PassOver => ListedNames \subseteq HandedNames

\* A finished pass without prior record that handed the second file over
\* before the first, the second being the older one.
C4_Witness ==
    /\ listed.prior = None /\ PassOver
    /\ listed.handed = <<2, 1>>
    /\ ListedTime(2) < ListedTime(1)

\* C5 as claimed: records exactly 60 seconds apart are not merged, records 59
\* seconds apart are.
C5_Gap == cur.mtime - latest[1].mtime
C5_Decided == pc \in {"collate", "save"} /\ latest # None
C5_SixtyNotMerged ==
    C5_Decided =>
        /\ C5_Gap = Threshold => ~cur.tried
        /\ C5_Gap = Threshold - 1 => cur.tried

\* C5 as amended: records exactly 60 seconds apart are merged, as records 59
\* seconds apart are; records 61 seconds apart are not.
C5_SixtyMerged ==
    C5_Decided =>
        /\ C5_Gap = Threshold => cur.tried
        /\ C5_Gap = Threshold - 1 => cur.tried
        /\ C5_Gap = Threshold + 1 => ~cur.tried

\* qpdf running on two records exactly 60 seconds apart.
C5_Witness ==
    pc = "collate" /\ C5_Gap = Threshold

\* C6: every merge takes its front pages from the record placed immediately
\* before the back record: a third candidate never triggers a merge with the
\* first when a second one was processed in between.
C6_OneShotPairing ==
    pc = "collate" => latest[1].name = cur.pred

\* C7: once qpdf has been run on a pair of source files, with or without
\* success, it is not run on that pair again in the same run of the process.
C7_PairNotRevisited ==
    pc = "collate" => <<latest[1].name, cur.name>> \notin merged

\* C8: a candidate is given to the recognition engine only when the readiness
\* loop saw it non-empty within its 10 turns; one still empty after them is
\* abandoned.
C8_NotYetWritten ==
    /\ pc = "ocr" => cur.ready
    /\ cur.ready => cur.i < Retries

\* C9: when the directories _01 ... _10 of a candidate's label exist, the
\* candidate is abandoned and nothing is placed; an output is only ever placed
\* under a name that did not exist; the records of the saved chain have
\* different output directories.
C9_LabelOf(t) == Timestamp(t)
C9_Exhausted(t) == \A k \in 1..MaxSuffix : <<C9_LabelOf(t), k>> \in outDirs
C9_Collision ==
    /\ [][(pc = "ocr" /\ pc' # "ocr") =>
            /\ C9_Exhausted(cur.mtime) => (pc' = "next" /\ cur' = NoCur /\ outDirs' = outDirs)
            /\ pc' = "pair" => /\ cur'.out \notin outDirs
                               /\ outDirs' = outDirs \cup {cur'.out}]_vars
    /\ [](\A i, j \in 1..Len(latest) : i # j => latest[i].out # latest[j].out)

\* A good input whose recognition did not fail was abandoned because all eleven
\* names of its label were taken.
C9_Witness ==
    /\ pc = "next"
    /\ listed.handed = <<1>>
    /\ failures = 0
    /\ 1 \notin placed
    /\ dir[1].size > 0
    /\ C9_Exhausted(dir[1].mtime)

\* C10: every record of a readable state file has its output directory set and
\* placed under the output root; save_latest is reached only with the record's
\* output placed and its merge, where one was due, run to the end.
C10_SavedIsPlaced ==
    /\ (pickle # None /\ pickle # Corrupt) =>
           \A j \in 1..Len(pickle) : pickle[j].out # NoOut /\ pickle[j].out \in outDirs
    /\ pc = "save" =>
           /\ cur.out # NoOut /\ cur.out \in outDirs
           /\ WantsCollate(cur.mtime, latest) => /\ cur.tried
                                                /\ <<latest[1].name, cur.name>> \in merged

\* A merged pair in the state file.
C10_Witness ==
    /\ Len(pickle) = 2
    /\ pickle # Corrupt
    /\ <<pickle[2].name, pickle[1].name>> \in merged
    /\ pickle[1].out \in outDirs

\* C11: in inotify_loop no file-creation event ends the loop: after the event
\* the process is handling the file or waiting again.
C11_LiveLoop ==
    [][(pc = "wait" /\ arrived' # arrived) => pc' # "dead"]_vars

\* C12: a file that disappears during a pass does not end the process: not when
\* it goes while the pass lists the directory and reads the modification times,
\* and not when the readiness loop or Pdf() finds it gone, where the pass goes on
\* to the next candidate.
C12_VanishedDropped ==
    [][/\ (pc = "scan" /\ \E n \in Names : dir[n].ex /\ ~dir'[n].ex) => pc' # "dead"
       /\ (pc \in {"ready", "mk"} /\ ~dir[cur.name].ex /\ pc' # "down") => pc' = "next"]_vars

\* C13: a candidate ocrmypdf has failed for is not given to ocrmypdf again in
\* the same run, and every candidate is processed with the last saved record as
\* its predecessor.
C13_Predecessor ==
    pc \in {"ready", "mk", "ocr", "pair", "collate", "save"} => latest = pickle
C13_NoResubmission ==
    /\ pc = "ocr" => cur.name \notin failed
    /\ C13_Predecessor

\* C14: when the processing of a record that qpdf was run for, with or
\* without success, is over and the next candidate is due, the predecessor P the
\* merge used has no back-reference: nothing follows P in the chain.
C14_BackReferenceDiscarded ==
    [][(pc \in {"collate", "save"} /\ cur.tried /\ pc' = "next") =>
           \A k \in 1..Len(latest') : latest'[k] = latest[1] => k = Len(latest')]_vars

\* C15: for a record more than 60 seconds after its predecessor, a day or more
\* after it included, qpdf is not run.
C15_FarApartAlone ==
    (C5_Decided /\ C5_Gap > Threshold) => ~cur.tried

\* C16: entries of one listing with equal modification times are handed to
\* process_one_file in ascending order of their names.
C16_TiesByName ==
    \A i, j \in 1..Len(listed.handed) :
        (i < j /\ ListedTime(listed.handed[i]) = ListedTime(listed.handed[j]))
            => listed.handed[i] < listed.handed[j]

\* C17: within one run, the arrival time of a record that reaches the pairing
\* step is not earlier than that of the record that reached it before.
C17_MonotoneArrival ==
    [][(pc = "ocr" /\ pc' = "pair" /\ reached # NoTime) => cur'.mtime >= reached]_vars

\* C18: a pass that finds the watched directory empty hands nothing over and
\* returns the record it was given; the process goes on.
C18_EmptyDirectory ==
    [][(pc = "scan" /\ Present = {} /\ pc' # "down") =>
           /\ pc' = "next"
           /\ queue' = <<>>
           /\ latest' = latest]_vars

\* C19: the chain in the state file has at most two records, the latest and
\* one predecessor, however many records were processed and whatever failed.
C19_ChainBound ==
    Len(pickle) <= 2

\* Three outputs were placed over time and the chain saved last has two records.
C19_Witness ==
    /\ pc = "next"
    /\ pickle = latest
    /\ Len(pickle) = 2
    /\ Cardinality(outDirs) >= 3

\* C20: from the hand-over of a candidate to the end of its processing in a
\* non-fatal error, no step changes the state file or the record the next
\* candidate gets as predecessor; only save_latest, which an error never
\* reaches, does.
C20_FrameOnError ==
    [][(pc \in {"ready", "mk", "ocr", "pair", "collate"} /\ pc' # "down") =>
           /\ pickle' = pickle
           /\ latest' = latest]_vars

\* ocrmypdf has just failed for a candidate that had a saved predecessor.
C20_Witness ==
    /\ pc = "next"
    /\ listed.handed # <<>>
    /\ listed.handed[Len(listed.handed)] \in failed
    /\ latest # None
    /\ pickle = latest

====
